---- MODULE Spec2Model ----
(***************************************************************************)
(* Revenue table ETL pipeline (python/revenue_pipeline.py).                *)
(*                                                                         *)
(* Day identifiers are the 'YYYY-MM-DD' strings of the code, written as    *)
(* the number YYYYMMDD (zero-padded fields, so string order is numeric     *)
(* order).  Money is counted in thousandths of a currency unit, so that    *)
(* round(x, 2) is a real rounding to a multiple of 10 thousandths.         *)
(***************************************************************************)
EXTENDS Integers, Sequences, FiniteSets, TLC

VARIABLES
    pc,                \* position of the running function / of main
    start_date,        \* generate_date_dimension: start_date argument
    end_date,          \* generate_date_dimension: end_date argument
    dates,             \* list returned by generate_date_dimension
    raised,            \* exception leaving the running function ("none" if none)
    products_df,       \* DataFrame of products: rows [sku_id, sku_description, price]
    product_date_df,   \* the spine: rows [sku_id, date_id, price]
    sales_df,          \* DataFrame of sales: rows [sku_id, order_date, sales]
    revenue_df,        \* rows [sku_id, date_id, price, sales, revenue]
    db,                \* the SQLite database: tables product, sales, revenue
    conn,              \* main's connection: "none", "open" or "closed"
    expected,          \* validate_results: <<expected_products, expected_dates>>
    validation_passed, \* what validate_results returned
    status,            \* the final status main logged ("none" before)
    phase,             \* the phase of main that is running or that raised
    run,               \* how many times main has been called
    history            \* per finished call of main: the revenue table and the exception

pipelineVars == <<db, conn, expected, validation_passed, status, phase, run, history>>

vars == <<pc, start_date, end_date, dates, raised,
          products_df, product_date_df, sales_df, revenue_df, pipelineVars>>

----------------------------------------------------------------------------
(* Bounds of the model *)

\* the end day is drawn within MaxSpan days before or after the start day
MaxSpan == 31

\* longest product list and longest day list given to the spine builder
MaxProducts == 2
MaxDays == 2

\* most rows of a spine and of a sales input given to calculate_revenue
MaxSpine == 2
MaxSales == 2

\* most rows of a revenue table given to validate_results, and the largest
\* expected product count and day count
MaxRows == 2
MaxExpected == 2

\* most rows of the sales table main reads, and how often main is called
MaxSalesRows == 2
MaxRuns == 2

\* largest price (in thousandths) and largest quantity of one transaction
\* in the check of the revenue amounts
MaxPrice == 25
MaxQty == 4

\* the values the inputs are drawn from
SkuIds == {1, 2}
SaleSkus == {1, 2, 9}
Prices == {0, 1005, 19990}
SpinePrices == {0, 1005}
Qtys == {3, 4}
DayIds == {20250101, 20250102, 20250131}
SpineDays == {20250101, 20250102}

\* a missing value of a column (pandas NaN / SQL NULL); never a price or a quantity
NaN == 0 - 1

\* the 0.01 of the revenue check, in thousandths
Tolerance == 10

NoTable == [exists |-> FALSE, rows |-> <<>>, indexes |-> {}]

\* outside a run of main: no database is attached and nothing has been logged
NoPipeline ==
    /\ db = [product |-> NoTable, sales |-> NoTable, revenue |-> NoTable]
    /\ conn = "none"
    /\ expected = <<0, 0>>
    /\ validation_passed = FALSE
    /\ status = "none"
    /\ phase = "none"
    /\ run = 0
    /\ history = <<>>

SeqsUpTo(S, n) == UNION {[1..k -> S] : k \in 0..n}

DupFree(s) == \A i, j \in DOMAIN s : i # j => s[i] # s[j]

----------------------------------------------------------------------------
(* Calendar: pandas Timestamp parsing, day arithmetic and strftime *)

Years == 2023..2026

IsLeap(y) == (y % 4 = 0 /\ y % 100 # 0) \/ y % 400 = 0

DaysInMonth(y, m) ==
    IF m = 2 THEN (IF IsLeap(y) THEN 29 ELSE 28)
    ELSE IF m \in {4, 6, 9, 11} THEN 30 ELSE 31

LeapsBefore(y) == ((y - 1) \div 4) - ((y - 1) \div 100) + ((y - 1) \div 400)

\* days from 1970-01-01 (the Timestamp epoch) to the first day of year y
DaysBeforeYear(y) == 365 * (y - 1970) + LeapsBefore(y) - LeapsBefore(1970)

RECURSIVE DaysBeforeMonth(_, _)
DaysBeforeMonth(y, m) ==
    IF m = 1 THEN 0 ELSE DaysBeforeMonth(y, m - 1) + DaysInMonth(y, m - 1)

\* pd.to_datetime('YYYY-MM-DD'): the day number of a day identifier
ToOrdinal(id) ==
    LET y == id \div 10000
        m == (id \div 100) % 100
        d == id % 100
    IN  DaysBeforeYear(y) + DaysBeforeMonth(y, m) + (d - 1)

\* Timestamp.strftime('%Y-%m-%d'): the day identifier of a day number
Strftime(n) ==
    LET y == CHOOSE yy \in Years :
                 DaysBeforeYear(yy) <= n /\ n < DaysBeforeYear(yy + 1)
        r == n - DaysBeforeYear(y)
        m == CHOOSE mm \in 1..12 :
                 DaysBeforeMonth(y, mm) <= r
                 /\ r < DaysBeforeMonth(y, mm) + DaysInMonth(y, mm)
        d == r - DaysBeforeMonth(y, m) + 1
    IN  y * 10000 + m * 100 + d

\* a mutant of date_range: the end day is left out
date_range_open(s, e) ==
    [i \in 1..(IF e > s THEN e - s ELSE 0) |-> s + (i - 1)]

\* a mutant of date_range: a reversed window is walked backwards
date_range_abs(s, e) ==
    IF e >= s THEN [i \in 1..(e - s + 1) |-> s + (i - 1)]
    ELSE [i \in 1..(s - e + 1) |-> s - (i - 1)]

\* pd.date_range(start, end): one day number per day from start to end,
\* both included; empty when end lies before start
date_range(s, e) ==
    [i \in 1..(IF e >= s THEN e - s + 1 ELSE 0) |-> s + (i - 1)]

generate_date_dimension(s, e) ==
    LET r == date_range(ToOrdinal(s), ToOrdinal(e))
    IN  [i \in 1..Len(r) |-> Strftime(r[i])]

----------------------------------------------------------------------------
(* The SQLite statements of load_revenue_table and validate_results.  A    *)
(* table is [exists, rows, indexes]; a statement gives the table it leaves *)
(* behind and the exception it raises ("none" if none).  DDL takes effect  *)
(* at once (no transaction is open when it runs), and to_sql commits its   *)
(* insert or rolls it back, so the table is always the committed one.      *)

RevenueIndexes == {"idx_revenue_sku", "idx_revenue_date", "idx_revenue_sku_date"}

Ok(t) == [t |-> t, err |-> "none"]

\* a mutant of drop_table_if_exists: the statement is missing
keep_table(t) == t

\* DROP TABLE IF EXISTS revenue: the table goes, and its indexes with it
drop_table_if_exists(t) == NoTable

\* CREATE TABLE revenue (...)
create_table(t) ==
    IF t.exists THEN [t |-> t, err |-> "OperationalError"]
    ELSE Ok([exists |-> TRUE, rows |-> <<>>, indexes |-> {}])

\* a row the NOT NULL columns of the revenue table refuse
HasNull(r) ==
    r.sku_id = NaN \/ r.date_id = NaN \/ r.price = NaN \/ r.sales = NaN \/ r.revenue = NaN

\* revenue_df.to_sql('revenue', conn, if_exists='append', index=False): all
\* rows are inserted in one transaction, rolled back when a row is refused
to_sql_append(t, df) ==
    IF \E i \in DOMAIN df : HasNull(df[i])
    THEN [t |-> t, err |-> "IntegrityError"]
    ELSE Ok([t EXCEPT !.rows = t.rows \o df])

\* CREATE INDEX name ON revenue(...)
create_index(t, name) ==
    IF name \in t.indexes THEN [t |-> t, err |-> "OperationalError"]
    ELSE Ok([t EXCEPT !.indexes = t.indexes \cup {name}])

\* drop, create, insert, three indexes, commit; the first exception ends it
load_revenue_table(t, df) ==
    LET created == create_table(drop_table_if_exists(t))
    IN  IF created.err # "none" THEN created
        ELSE LET inserted == to_sql_append(created.t, df)
             IN  IF inserted.err # "none" THEN inserted
                 ELSE LET x1 == create_index(inserted.t, "idx_revenue_sku")
                      IN  IF x1.err # "none" THEN x1
                          ELSE LET x2 == create_index(x1.t, "idx_revenue_date")
                               IN  IF x2.err # "none" THEN x2
                                   ELSE create_index(x2.t, "idx_revenue_sku_date")

AbsDiff(a, b) == IF a < b THEN b - a ELSE a - b

\* the three checks of validate_results.  SUM(...) over no rows is NULL, and
\* a WHERE condition on a NULL column is not true.
validate_results(t, expected_products, expected_dates) ==
    IF ~t.exists THEN [passed |-> FALSE, err |-> "OperationalError"]
    ELSE LET actual == Len(t.rows)
             nulls == IF t.rows = <<>> THEN NaN
                      ELSE Cardinality({i \in DOMAIN t.rows :
                               \/ t.rows[i].sku_id = NaN
                               \/ t.rows[i].date_id = NaN
                               \/ t.rows[i].price = NaN})
             errors == Cardinality({i \in DOMAIN t.rows :
                           /\ t.rows[i].revenue # NaN
                           /\ t.rows[i].price # NaN
                           /\ t.rows[i].sales # NaN
                           /\ AbsDiff(t.rows[i].revenue,
                                      t.rows[i].price * t.rows[i].sales) > Tolerance})
         IN  [passed |-> (actual = expected_products * expected_dates)
                         /\ (nulls = 0) /\ (errors = 0),
              err |-> "none"]

----------------------------------------------------------------------------
(* validate_results applied to revenue tables of every content, with and   *)
(* without NULLs and wrong revenues, and to every expected count           *)

ValidatedRows ==
    [sku_id : {1, NaN}, date_id : {20250101, NaN}, price : {1005, NaN},
     sales : {3}, revenue : {3020, 3030}]

InitValidate ==
    /\ pc = "call"
    /\ start_date = 0
    /\ end_date = 0
    /\ dates = <<>>
    /\ raised = "none"
    /\ products_df = <<>>
    /\ product_date_df = <<>>
    /\ sales_df = <<>>
    /\ revenue_df = <<>>
    /\ db \in [product : {NoTable}, sales : {NoTable},
               revenue : [exists : {TRUE}, rows : SeqsUpTo(ValidatedRows, MaxRows),
                          indexes : {RevenueIndexes}]]
    /\ conn = "open"
    /\ expected \in (0..MaxExpected) \X (0..MaxExpected)
    /\ validation_passed = FALSE
    /\ status = "none"
    /\ phase = "none"
    /\ run = 0
    /\ history = <<>>

Validate ==
    /\ pc = "call"
    /\ validation_passed' = validate_results(db.revenue, expected[1], expected[2]).passed
    /\ pc' = "return"
    /\ UNCHANGED <<start_date, end_date, dates, raised, products_df, product_date_df,
                   sales_df, revenue_df, db, conn, expected, status, phase, run, history>>

NextValidate == Validate

SpecValidate == InitValidate /\ [][NextValidate]_vars

\* C10: for every content of the revenue table and every expected product
\* and day count, an empty table with an expected count of zero included,
\* validate_results passes exactly when the row count is products x days, no
\* row has a null identifier, day or price, and every row has
\* |revenue - price x sales| <= 0.01.
C10_PassIffThreeChecks ==
    pc = "return" =>
        LET rows == db.revenue.rows
        IN  validation_passed <=>
                /\ Len(rows) = expected[1] * expected[2]
                /\ \A i \in DOMAIN rows :
                       rows[i].sku_id # NaN /\ rows[i].date_id # NaN /\ rows[i].price # NaN
                /\ \A i \in DOMAIN rows :
                       rows[i].price # NaN =>
                           AbsDiff(rows[i].revenue, rows[i].price * rows[i].sales) <= Tolerance

\* the same, for tables that hold at least one row
C10_PassIffThreeChecksNonEmpty ==
    (pc = "return" /\ db.revenue.rows # <<>>) => C10_PassIffThreeChecks

----------------------------------------------------------------------------
(* generate_date_dimension applied to windows drawn around month ends,     *)
(* a leap day, a year end and the pipeline's own window                    *)

StartDates == {20240101, 20240215, 20240229, 20241215, 20250101, 20250131}

InitDates ==
    /\ pc = "call"
    /\ NoPipeline
    /\ start_date \in StartDates
    /\ end_date \in {Strftime(ToOrdinal(start_date) + k) : k \in (0 - MaxSpan)..MaxSpan}
    /\ dates = <<>>
    /\ raised = "none"
    /\ products_df = <<>>
    /\ product_date_df = <<>>
    /\ sales_df = <<>>
    /\ revenue_df = <<>>

GenerateDates ==
    /\ pc = "call"
    /\ dates' = generate_date_dimension(start_date, end_date)
    /\ pc' = "return"
    /\ UNCHANGED <<start_date, end_date, raised,
                   products_df, product_date_df, sales_df, revenue_df, pipelineVars>>

NextDates == GenerateDates

SpecDates == InitDates /\ [][NextDates]_vars

----------------------------------------------------------------------------
(* Claims about generate_date_dimension *)

\* the calendar day after day identifier a, read off the identifier itself
DayAfter(a) ==
    LET y == a \div 10000
        m == (a \div 100) % 100
        d == a % 100
        last == IF m = 2 THEN (IF y % 4 = 0 /\ (y % 100 # 0 \/ y % 400 = 0) THEN 29 ELSE 28)
                ELSE IF m \in {4, 6, 9, 11} THEN 30 ELSE 31
    IN  IF d < last THEN a + 1
        ELSE IF m < 12 THEN y * 10000 + (m + 1) * 100 + 1
        ELSE (y + 1) * 10000 + 101

RECURSIVE DaysBetween(_, _)
DaysBetween(a, b) == IF a = b THEN 0 ELSE 1 + DaysBetween(DayAfter(a), b)

\* C5: for every window with start <= end, generate_date_dimension returns
\* (end - start in days) + 1 day identifiers, the first is start, the last is
\* end, and each one is the calendar day after the one before it (strictly
\* increasing, no gaps, no duplicates).
C5_DateRangeComplete ==
    (pc = "return" /\ start_date <= end_date) =>
        /\ Len(dates) = DaysBetween(start_date, end_date) + 1
        /\ dates[1] = start_date
        /\ dates[Len(dates)] = end_date
        /\ \A i \in 1..(Len(dates) - 1) :
               dates[i] < dates[i + 1] /\ dates[i + 1] = DayAfter(dates[i])

C5_Witness ==
    /\ pc = "return"
    /\ start_date = 20240215
    /\ end_date = 20240301
    /\ Len(dates) = 16

\* C6 as stated: when the end day precedes the start day the generator fails
\* with InvalidRangeError instead of returning a sequence.
C6_InvalidRangeRaises ==
    (pc = "return" /\ end_date < start_date) => raised = "InvalidRangeError"

\* C6 as amended: when the end day precedes the start day the generator
\* raises nothing and returns the empty sequence.
C6_ReversedWindowIsEmpty ==
    (pc = "return" /\ end_date < start_date) => (raised = "none" /\ dates = <<>>)

C6_Witness ==
    /\ pc = "return"
    /\ start_date = 20250131
    /\ end_date = 20250101
    /\ dates = <<>>

----------------------------------------------------------------------------
(* DataFrames are sequences of rows; a row is a record of its columns *)

\* a mutant of cross_merge: rows are paired by position instead of by key
positional_merge(df, ds) ==
    [k \in 1..(IF Len(df) < Len(ds) THEN Len(df) ELSE Len(ds)) |->
        [sku_id |-> df[k].sku_id, date_id |-> ds[k], price |-> df[k].price]]

\* products_df.merge(dates_df, on='_key') with '_key' = 1 on every row of both
\* sides: for each product row in order, every date row in order; then
\* .drop('_key') and the selection of sku_id, date_id, price
cross_merge(df, ds) ==
    [k \in 1..(Len(df) * Len(ds)) |->
        LET i == ((k - 1) \div Len(ds)) + 1
            j == ((k - 1) % Len(ds)) + 1
        IN  [sku_id |-> df[i].sku_id, date_id |-> ds[j], price |-> df[i].price]]

create_product_date_cartesian(df, ds) == cross_merge(df, ds)

\* products_df['_key'] = 1 adds the column to the caller's DataFrame
with_key(df) ==
    [i \in DOMAIN df |->
        [sku_id |-> df[i].sku_id, sku_description |-> df[i].sku_description,
         price |-> df[i].price, key |-> 1]]

KeyLess(a, b) == a[1] < b[1] \/ (a[1] = b[1] /\ a[2] < b[2])

RECURSIVE SortedKeys(_)
SortedKeys(K) ==
    IF K = {} THEN <<>>
    ELSE LET m == CHOOSE x \in K : \A y \in K : x = y \/ KeyLess(x, y)
         IN  <<m>> \o SortedKeys(K \ {m})

\* a mutant of GroupSum: the group keeps its largest quantity
RECURSIVE GroupMax(_, _, _)
GroupMax(df, k, i) ==
    IF i > Len(df) THEN 0
    ELSE LET rest == GroupMax(df, k, i + 1)
             here == IF <<df[i].sku_id, df[i].order_date>> = k THEN df[i].sales ELSE 0
         IN  IF here > rest THEN here ELSE rest

\* the sum of column 'sales' over rows i..Len(df) of df whose key is k
RECURSIVE GroupSum(_, _, _)
GroupSum(df, k, i) ==
    IF i > Len(df) THEN 0
    ELSE (IF <<df[i].sku_id, df[i].order_date>> = k THEN df[i].sales ELSE 0)
         + GroupSum(df, k, i + 1)

\* sales_df.groupby(['sku_id', 'order_date'], as_index=False).agg({'sales': 'sum'}):
\* one row per key that occurs, in key order
groupby_sum(df) ==
    LET ks == SortedKeys({<<df[i].sku_id, df[i].order_date>> : i \in DOMAIN df})
    IN  [n \in 1..Len(ks) |->
            [sku_id |-> ks[n][1], order_date |-> ks[n][2],
             sales |-> GroupSum(df, ks[n], 1)]]

\* a mutant of left_rows: an inner merge, which drops the unmatched row
inner_rows(row, right) ==
    LET hits == SelectSeq(right, LAMBDA r : r.sku_id = row.sku_id /\ r.order_date = row.date_id)
    IN  [n \in 1..Len(hits) |->
            [sku_id |-> row.sku_id, date_id |-> row.date_id, price |-> row.price,
             order_date |-> hits[n].order_date, sales |-> hits[n].sales]]

\* the rows a spine row gets in a left merge on (sku_id, date_id) =
\* (sku_id, order_date): one per matching right row, or one with missing
\* right columns when none matches
left_rows(row, right) ==
    LET hits == SelectSeq(right, LAMBDA r : r.sku_id = row.sku_id /\ r.order_date = row.date_id)
    IN  IF hits = <<>>
        THEN << [sku_id |-> row.sku_id, date_id |-> row.date_id, price |-> row.price,
                 order_date |-> NaN, sales |-> NaN] >>
        ELSE [n \in 1..Len(hits) |->
                [sku_id |-> row.sku_id, date_id |-> row.date_id, price |-> row.price,
                 order_date |-> hits[n].order_date, sales |-> hits[n].sales]]

RECURSIVE merge_left(_, _, _)
merge_left(left, right, i) ==
    IF i > Len(left) THEN <<>>
    ELSE left_rows(left[i], right) \o merge_left(left, right, i + 1)

fillna0(v) == IF v = NaN THEN 0 ELSE v

\* a mutant of round2: rounding to one decimal place
round1(x) ==
    IF x = NaN THEN NaN
    ELSE LET q == x \div 100
             r == x % 100
         IN  IF r < 50 THEN q * 100 ELSE (q + 1) * 100

\* x.round(2) of an amount in thousandths: the nearest multiple of 10, ties
\* to the even hundredth; a missing amount stays missing
round2(x) ==
    IF x = NaN THEN NaN
    ELSE LET q == x \div 10
             r == x % 10
         IN  IF r < 5 THEN q * 10
             ELSE IF r > 5 THEN (q + 1) * 10
             ELSE IF q % 2 = 0 THEN q * 10 ELSE (q + 1) * 10

\* price * sales of two columns; a missing price gives a missing product
times(p, n) == IF p = NaN THEN NaN ELSE p * n

calculate_revenue(spine, sales) ==
    LET sales_agg == IF sales # <<>> THEN groupby_sum(sales) ELSE <<>>
        merged == merge_left(spine, sales_agg, 1)
    IN  [i \in 1..Len(merged) |->
            LET n == fillna0(merged[i].sales)
            IN  [sku_id |-> merged[i].sku_id, date_id |-> merged[i].date_id,
                 price |-> merged[i].price, sales |-> n,
                 revenue |-> round2(times(merged[i].price, n))]]

----------------------------------------------------------------------------
(* create_product_date_cartesian applied to product lists with unique      *)
(* identifiers and day lists without duplicates                            *)

ProductRows ==
    [sku_id : 1..MaxProducts, sku_description : {"sku"}, price : Prices]

InitSpine ==
    /\ pc = "call"
    /\ NoPipeline
    /\ start_date = 0
    /\ end_date = 0
    /\ raised = "none"
    /\ product_date_df = <<>>
    /\ sales_df = <<>>
    /\ revenue_df = <<>>
    /\ products_df \in {df \in SeqsUpTo(ProductRows, MaxProducts) :
                           DupFree([i \in DOMAIN df |-> df[i].sku_id])}
    /\ dates \in {ds \in SeqsUpTo(DayIds, MaxDays) : DupFree(ds)}

BuildSpine ==
    /\ pc = "call"
    /\ product_date_df' = create_product_date_cartesian(products_df, dates)
    /\ products_df' = with_key(products_df)
    /\ pc' = "return"
    /\ UNCHANGED <<start_date, end_date, dates, raised,
                   sales_df, revenue_df, pipelineVars>>

NextSpine == BuildSpine

SpecSpine == InitSpine /\ [][NextSpine]_vars

\* C2: for every product list with unique identifiers and every day list
\* without duplicates, the spine has |P| x |D| rows, holds every (product, day)
\* pair exactly once with that product's price, and is empty, without an
\* error, when P or D is empty.
C2_SpineIsFullCross ==
    pc = "return" =>
        /\ raised = "none"
        /\ Len(product_date_df) = Len(products_df) * Len(dates)
        /\ \A i \in DOMAIN products_df : \A j \in DOMAIN dates :
               /\ Cardinality({k \in DOMAIN product_date_df :
                      /\ product_date_df[k].sku_id = products_df[i].sku_id
                      /\ product_date_df[k].date_id = dates[j]}) = 1
               /\ \A k \in DOMAIN product_date_df :
                      (/\ product_date_df[k].sku_id = products_df[i].sku_id
                       /\ product_date_df[k].date_id = dates[j])
                      => product_date_df[k].price = products_df[i].price
        /\ (products_df = <<>> \/ dates = <<>>) => product_date_df = <<>>

C2_Witness ==
    /\ pc = "return"
    /\ Len(products_df) = 2
    /\ Len(dates) = 2
    /\ Len(product_date_df) = 4
    /\ products_df[1].price # products_df[2].price

C2_WitnessEmpty ==
    /\ pc = "return"
    /\ products_df = <<>>
    /\ dates # <<>>
    /\ product_date_df = <<>>

----------------------------------------------------------------------------
(* calculate_revenue applied to spines with unique (sku_id, date_id) and   *)
(* to sales inputs that may be empty, may repeat a (product, day) and may  *)
(* name a product or a day the spine does not hold                         *)

SpineRows == [sku_id : SkuIds, date_id : SpineDays, price : SpinePrices]

SaleRows == [sku_id : SaleSkus, order_date : DayIds, sales : Qtys]

SaleRowLeq(a, b) ==
    \/ KeyLess(<<a.sku_id, a.order_date>>, <<b.sku_id, b.order_date>>)
    \/ (a.sku_id = b.sku_id /\ a.order_date = b.order_date /\ a.sales <= b.sales)

\* the sales inputs: every multiset of at most MaxSales transactions, each
\* listed once (in the order of SaleRowLeq)
SalesInputs ==
    {sd \in SeqsUpTo(SaleRows, MaxSales) :
        \A i \in 1..(Len(sd) - 1) : SaleRowLeq(sd[i], sd[i + 1])}

InitRevenue ==
    /\ pc = "call"
    /\ NoPipeline
    /\ start_date = 0
    /\ end_date = 0
    /\ dates = <<>>
    /\ raised = "none"
    /\ products_df = <<>>
    /\ product_date_df \in
           {sp \in SeqsUpTo(SpineRows, MaxSpine) :
               DupFree([i \in DOMAIN sp |-> <<sp[i].sku_id, sp[i].date_id>>])}
    /\ sales_df \in SalesInputs
    /\ revenue_df = <<>>

CalculateRevenue ==
    /\ pc = "call"
    /\ revenue_df' = calculate_revenue(product_date_df, sales_df)
    /\ pc' = "return"
    /\ UNCHANGED <<start_date, end_date, dates, raised,
                   products_df, product_date_df, sales_df, pipelineVars>>

NextRevenue == CalculateRevenue

SpecRevenue == InitRevenue /\ [][NextRevenue]_vars

\* the quantities of the transactions of sd on product sku and day d, summed
\* by counting how often each quantity occurs
MatchingTotal(sd, sku, d) ==
    LET vals == {sd[j].sales : j \in DOMAIN sd}
        count(q) == Cardinality({j \in DOMAIN sd :
                        sd[j].sku_id = sku /\ sd[j].order_date = d /\ sd[j].sales = q})
        RECURSIVE total(_)
        total(V) == IF V = {} THEN 0
                    ELSE LET q == CHOOSE x \in V : TRUE
                         IN  q * count(q) + total(V \ {q})
    IN  total(vals)

\* C1: calculate_revenue returns exactly one row per spine row, whatever the
\* sales input: as many rows as the spine, and the same (sku_id, date_id)
\* pairs, none dropped and none duplicated.
C1_OneRowPerSpineRow ==
    pc = "return" =>
        /\ raised = "none"
        /\ Len(revenue_df) = Len(product_date_df)
        /\ {<<revenue_df[i].sku_id, revenue_df[i].date_id>> : i \in DOMAIN revenue_df}
             = {<<product_date_df[i].sku_id, product_date_df[i].date_id>> :
                   i \in DOMAIN product_date_df}
        /\ DupFree([i \in DOMAIN revenue_df |->
                       <<revenue_df[i].sku_id, revenue_df[i].date_id>>])

\* a spine of two rows, one with two transactions and one with none, next to
\* a transaction that names no spine row
C1_Witness ==
    /\ pc = "return"
    /\ Len(product_date_df) = 2
    /\ Len(revenue_df) = 2
    /\ Len(sales_df) = 2
    /\ \E i \in DOMAIN revenue_df : revenue_df[i].sales = 0
    /\ \E i \in DOMAIN revenue_df : revenue_df[i].sales > 0
    /\ \E j \in DOMAIN sales_df : sales_df[j].sku_id \notin SkuIds

\* C3: the quantity of each returned row is the exact sum of the quantities
\* of the transactions on that row's (product, day), 0 when there is none;
\* an empty sales input gives sales = 0 and revenue = 0.0 on every row.
C3_QuantityIsExactSum ==
    pc = "return" =>
        /\ \A i \in DOMAIN revenue_df :
               revenue_df[i].sales =
                   MatchingTotal(sales_df, revenue_df[i].sku_id, revenue_df[i].date_id)
        /\ sales_df = <<>> =>
               \A i \in DOMAIN revenue_df :
                   revenue_df[i].sales = 0 /\ revenue_df[i].revenue = 0

\* two transactions of quantity 3 and 4 on one (product, day) give 7
C3_Witness ==
    /\ pc = "return"
    /\ Len(sales_df) = 2
    /\ sales_df[1].sales = 3
    /\ sales_df[2].sales = 4
    /\ sales_df[1].sku_id = sales_df[2].sku_id
    /\ sales_df[1].order_date = sales_df[2].order_date
    /\ \E i \in DOMAIN revenue_df :
           /\ revenue_df[i].sku_id = sales_df[1].sku_id
           /\ revenue_df[i].date_id = sales_df[1].order_date
           /\ revenue_df[i].sales = 7

----------------------------------------------------------------------------
(* calculate_revenue applied to one spine row of every price up to         *)
(* MaxPrice thousandths and to transactions of every quantity up to MaxQty *)

InitAmount ==
    /\ pc = "call"
    /\ NoPipeline
    /\ start_date = 0
    /\ end_date = 0
    /\ dates = <<>>
    /\ raised = "none"
    /\ products_df = <<>>
    /\ product_date_df \in
           {<<r>> : r \in [sku_id : {1}, date_id : {20250101}, price : 0..MaxPrice]}
    /\ sales_df \in
           SeqsUpTo([sku_id : {1}, order_date : {20250101}, sales : 0..MaxQty], MaxSales)
    /\ revenue_df = <<>>

NextAmount == CalculateRevenue

SpecAmount == InitAmount /\ [][NextAmount]_vars

\* one hundredth (the second decimal place), in thousandths
Hundredth == 10

Abs(x) == IF x < 0 THEN 0 - x ELSE x

\* C4: for non-negative prices and quantities, revenue is price x quantity
\* rounded to 2 decimal places: a whole number of hundredths, nearest to the
\* product, within 0.01 of it, and never negative.
C4_RevenueIsRoundedProduct ==
    pc = "return" =>
        \A i \in DOMAIN revenue_df :
            LET exact == revenue_df[i].price * revenue_df[i].sales
                rev == revenue_df[i].revenue
            IN  /\ rev % Hundredth = 0
                /\ 2 * Abs(rev - exact) <= Hundredth
                /\ Abs(rev - exact) <= Tolerance
                /\ rev >= 0

\* 0.023 x 7 = 0.161 is stored as 0.16
C4_Witness ==
    /\ pc = "return"
    /\ Len(revenue_df) = 1
    /\ revenue_df[1].price = 23
    /\ revenue_df[1].sales = 7
    /\ revenue_df[1].revenue = 160

----------------------------------------------------------------------------
(* main, called up to MaxRuns times on one database whose product and      *)
(* sales tables do not change                                              *)

START_DATE == 20250101
END_DATE == 20250131

\* a mutant of finish: a failed validation is raised to the caller
finish_strict(passed) ==
    [status |-> IF passed THEN "success" ELSE "error",
     raised |-> IF passed THEN "none" ELSE "ValidationError"]

\* the two outcomes of the final status: main logs and returns
finish(passed) ==
    [status |-> IF passed THEN "success" ELSE "warning", raised |-> "none"]

\* DATE(orderdate_utc) of a timestamp YYYYMMDDHH
DateOf(ts) == ts \div 100

\* SELECT sku_id, DATE(orderdate_utc) as order_date, sales FROM sales
\* WHERE DATE(orderdate_utc) BETWEEN ? AND ?
select_sales(rows, lo, hi) ==
    LET kept == SelectSeq(rows, LAMBDA r : lo <= DateOf(r.orderdate_utc)
                                          /\ DateOf(r.orderdate_utc) <= hi)
    IN  [i \in DOMAIN kept |->
            [sku_id |-> kept[i].sku_id, order_date |-> DateOf(kept[i].orderdate_utc),
             sales |-> kept[i].sales]]

\* the product tables: absent, or at most MaxProducts products in identifier
\* order; a NULL price stands next to a numeric one (a float column with NaN)
ProductTableRows ==
    {r \in SeqsUpTo([sku_id : 1..MaxProducts, sku_description : {"sku"},
                     price : {1005, NaN}], MaxProducts) :
        /\ \A i \in 1..(Len(r) - 1) : r[i].sku_id < r[i + 1].sku_id
        /\ (\E i \in DOMAIN r : r[i].price = NaN) => (\E i \in DOMAIN r : r[i].price # NaN)}

\* the sales tables: absent, or at most MaxSalesRows transactions before, in
\* and after the window (two of them at different hours of one day), of a
\* product that the product table may or may not hold
SalesTableRows ==
    SeqsUpTo([sku_id : {1},
              orderdate_utc : {2024123123, 2025010109, 2025010118, 2025020100},
              sales : {3}], MaxSalesRows)

\* a revenue table left behind by an earlier load of other data
StaleTable ==
    [exists |-> TRUE,
     rows |-> << [sku_id |-> 7, date_id |-> 20241231, price |-> 500,
                  sales |-> 1, revenue |-> 500] >>,
     indexes |-> RevenueIndexes]

InitMain ==
    /\ pc = "idle"
    /\ start_date = 0
    /\ end_date = 0
    /\ dates = <<>>
    /\ raised = "none"
    /\ products_df = <<>>
    /\ product_date_df = <<>>
    /\ sales_df = <<>>
    /\ revenue_df = <<>>
    /\ db \in [product : {NoTable} \cup
                         {[exists |-> TRUE, rows |-> r, indexes |-> {}] :
                             r \in ProductTableRows},
               sales : {NoTable} \cup
                       {[exists |-> TRUE, rows |-> r, indexes |-> {}] :
                           r \in SalesTableRows},
               revenue : {NoTable, StaleTable}]
    /\ conn = "none"
    /\ expected = <<0, 0>>
    /\ validation_passed = FALSE
    /\ status = "none"
    /\ phase = "none"
    /\ run = 0
    /\ history = <<>>

\* the caller calls main (again); main sets its window
MainStart ==
    /\ pc \in {"idle", "done"}
    /\ run < MaxRuns
    /\ run' = run + 1
    /\ start_date' = START_DATE
    /\ end_date' = END_DATE
    /\ dates' = <<>>
    /\ raised' = "none"
    /\ products_df' = <<>>
    /\ product_date_df' = <<>>
    /\ sales_df' = <<>>
    /\ revenue_df' = <<>>
    /\ conn' = "none"
    /\ validation_passed' = FALSE
    /\ status' = "none"
    /\ phase' = "config"
    /\ pc' = "connect"
    /\ UNCHANGED <<db, expected, history>>

Connect ==
    /\ pc = "connect"
    /\ conn' = "open"
    /\ pc' = "extract_products"
    /\ UNCHANGED <<start_date, end_date, dates, raised, products_df, product_date_df,
                   sales_df, revenue_df, db, expected, validation_passed, status,
                   phase, run, history>>

ExtractProducts ==
    /\ pc = "extract_products"
    /\ phase' = "extract"
    /\ IF db.product.exists
       THEN /\ products_df' = db.product.rows
            /\ pc' = "extract_sales"
            /\ UNCHANGED raised
       ELSE /\ raised' = "DatabaseError"
            /\ pc' = "except"
            /\ UNCHANGED products_df
    /\ UNCHANGED <<start_date, end_date, dates, product_date_df, sales_df, revenue_df,
                   db, conn, expected, validation_passed, status, run, history>>

ExtractSales ==
    /\ pc = "extract_sales"
    /\ phase' = "extract"
    /\ IF db.sales.exists
       THEN /\ sales_df' = select_sales(db.sales.rows, start_date, end_date)
            /\ pc' = "dates"
            /\ UNCHANGED raised
       ELSE /\ raised' = "DatabaseError"
            /\ pc' = "except"
            /\ UNCHANGED sales_df
    /\ UNCHANGED <<start_date, end_date, dates, products_df, product_date_df, revenue_df,
                   db, conn, expected, validation_passed, status, run, history>>

GenerateDatesMain ==
    /\ pc = "dates"
    /\ phase' = "transform"
    /\ dates' = generate_date_dimension(start_date, end_date)
    /\ pc' = "spine"
    /\ UNCHANGED <<start_date, end_date, raised, products_df, product_date_df, sales_df,
                   revenue_df, db, conn, expected, validation_passed, status, run, history>>

BuildSpineMain ==
    /\ pc = "spine"
    /\ product_date_df' = create_product_date_cartesian(products_df, dates)
    /\ products_df' = with_key(products_df)
    /\ pc' = "revenue"
    /\ UNCHANGED <<start_date, end_date, dates, raised, sales_df, revenue_df,
                   db, conn, expected, validation_passed, status, phase, run, history>>

CalculateRevenueMain ==
    /\ pc = "revenue"
    /\ revenue_df' = calculate_revenue(product_date_df, sales_df)
    /\ pc' = "load"
    /\ UNCHANGED <<start_date, end_date, dates, raised, products_df, product_date_df,
                   sales_df, db, conn, expected, validation_passed, status, phase,
                   run, history>>

Load ==
    /\ pc = "load"
    /\ phase' = "load"
    /\ LET r == load_revenue_table(db.revenue, revenue_df)
       IN  /\ db' = [db EXCEPT !.revenue = r.t]
           /\ raised' = r.err
           /\ pc' = IF r.err = "none" THEN "validate" ELSE "except"
    /\ UNCHANGED <<start_date, end_date, dates, products_df, product_date_df, sales_df,
                   revenue_df, conn, expected, validation_passed, status, run, history>>

ValidateMain ==
    /\ pc = "validate"
    /\ phase' = "validate"
    /\ LET r == validate_results(db.revenue, Len(products_df), Len(dates))
       IN  /\ validation_passed' = r.passed
           /\ raised' = r.err
           /\ pc' = IF r.err = "none" THEN "close" ELSE "except"
    /\ UNCHANGED <<start_date, end_date, dates, products_df, product_date_df, sales_df,
                   revenue_df, db, conn, expected, status, run, history>>

Close ==
    /\ pc = "close"
    /\ conn' = "closed"
    /\ pc' = "status"
    /\ UNCHANGED <<start_date, end_date, dates, raised, products_df, product_date_df,
                   sales_df, revenue_df, db, expected, validation_passed, status,
                   phase, run, history>>

\* the final status is logged and main returns
LogStatus ==
    /\ pc = "status"
    /\ phase' = "finish"
    /\ status' = finish(validation_passed).status
    /\ raised' = finish(validation_passed).raised
    /\ history' = Append(history, [revenue |-> db.revenue,
                                   raised |-> finish(validation_passed).raised])
    /\ pc' = "done"
    /\ UNCHANGED <<start_date, end_date, dates, products_df, product_date_df, sales_df,
                   revenue_df, db, conn, expected, validation_passed, run>>

\* except Exception: the error is logged and raised again
Except ==
    /\ pc = "except"
    /\ status' = "error"
    /\ history' = Append(history, [revenue |-> db.revenue, raised |-> raised])
    /\ pc' = "done"
    /\ UNCHANGED <<start_date, end_date, dates, raised, products_df, product_date_df,
                   sales_df, revenue_df, db, conn, expected, validation_passed,
                   phase, run>>

NextMain ==
    \/ MainStart
    \/ Connect
    \/ ExtractProducts
    \/ ExtractSales
    \/ GenerateDatesMain
    \/ BuildSpineMain
    \/ CalculateRevenueMain
    \/ Load
    \/ ValidateMain
    \/ Close
    \/ LogStatus
    \/ Except

SpecMain == InitMain /\ [][NextMain]_vars

\* C7: a second run of main on unchanged product and sales inputs leaves the
\* revenue table exactly as the first run left it and ends as the first run
\* ended; a completed load holds the rows of that run and nothing older, with
\* the three indexes.
C7_RerunLeavesTableUnchanged ==
    /\ \A k \in 2..Len(history) :
           /\ history[k].revenue = history[k - 1].revenue
           /\ history[k].raised = history[k - 1].raised
    /\ (pc = "done" /\ raised = "none") =>
           /\ db.revenue.rows = revenue_df
           /\ db.revenue.indexes = RevenueIndexes

\* both runs completed, and the table holds a sold quantity
C7_Witness ==
    /\ pc = "done"
    /\ run = 2
    /\ Len(history) = 2
    /\ history[1].raised = "none"
    /\ history[2].raised = "none"
    /\ Len(db.revenue.rows) = 2 * Len(dates)
    /\ \E i \in DOMAIN db.revenue.rows : db.revenue.rows[i].sales > 0

\* C8: once main has opened the connection, the connection is closed by the
\* time main returns or raises, on every exit path.
C8_ConnectionClosedOnExit ==
    pc = "done" => conn = "closed"

\* C9: a failed validation is not fatal: main raises nothing and finishes
\* with a warning, and the rows the load committed stay in the table as they
\* are through validation and to the end of the run; main raises only when
\* extract, transform, load or validate raised.
C9_FailedValidationIsNotFatal ==
    /\ (pc = "done" /\ phase = "finish" /\ ~validation_passed) =>
           /\ raised = "none"
           /\ status = "warning"
    /\ (pc \in {"validate", "close", "status"} \/ (pc = "done" /\ phase = "finish")) =>
           /\ db.revenue.exists
           /\ db.revenue.rows = revenue_df
    /\ (pc = "done" /\ raised # "none") =>
           /\ phase \in {"extract", "transform", "load", "validate"}
           /\ status = "error"

\* a run whose validation failed after the load was committed
C9_Witness ==
    /\ pc = "done"
    /\ phase = "finish"
    /\ ~validation_passed
    /\ status = "warning"
    /\ db.revenue.exists

\* a run that ends with a warning holds no rows: the only validation that
\* fails in a run of main is the one over an empty revenue table
C9_WarningOnlyOnEmptyTable ==
    (pc = "done" /\ status = "warning") => db.revenue.rows = <<>>

\* in a run of main the day list is generated only after both source tables
\* have been read, and main's own window never comes out empty
DatesFollowExtraction ==
    /\ pc \in {"connect", "extract_products", "extract_sales"} => dates = <<>>
    /\ pc \in {"spine", "revenue", "load", "validate", "close", "status"} =>
           /\ db.product.exists
           /\ db.sales.exists
           /\ Len(dates) = 31
           /\ raised = "none"

====
